---- MODULE Spec2Model ----
(***************************************************************************)
(* Model of the Flappy Bird game of src/src/App.js: the Bird and Pipe      *)
(* classes and the Game component (state flags, tick timer, input          *)
(* handlers, update loop, collision test, score submission).               *)
(*                                                                         *)
(* Lengths and speeds are fixed-point numbers in tenths of a pixel: the    *)
(* source's 0.4 (gravity) is 4, 1.5 (pipe speed) is 15, 500 (HEIGHT) is    *)
(* 5000.  Every quantity of the game is a multiple of 0.1 px once the      *)
(* random draw is one, so the arithmetic of the model is exact.            *)
(*                                                                         *)
(* React is the 16.x line (README badge, src/unnamed/part_000:7): setState *)
(* called from a document-level listener or from a setInterval callback is *)
(* applied synchronously, and setState called inside a React onClick       *)
(* handler is applied when that handler returns, before the event reaches  *)
(* the listeners the component added to document afterwards.               *)
(***************************************************************************)
EXTENDS Integers, Sequences, FiniteSets, TLC

\* ---------------------------------------------------------------- constants
HEIGHT == 500 * 10
WIDTH == 800 * 10
PIPE_WIDTH == 60 * 10
MIN_PIPE_HEIGHT == 30 * 10
PIPE_GAP == 200 * 10
EarlyGapBonus == 50 * 10
EarlyScore == 3
BirdX == 150 * 10
BirdGravity == 4
BirdRadius == 12 * 10
JumpVelocity == -80
PipeSpeed == 15
SpawnEvery == 240
BoundsMargin == 5 * 10
PipeMargin == 3 * 10
\* The longest username POST /api/scores accepts.
NameLimit == 50
\* The number of rows GET /api/scores/top returns when it is given no limit.
DefaultLimit == 10

\* ---------------------------------------------------------------- bounds
\* Ticks of one session the model follows.
MaxFrame == 1450
\* Live intervals the model follows at once.
MaxTimers == 2
\* Score submissions in flight at once.
MaxPending == 1
\* Math.random() is drawn from {0, 1/RandDen, .., (RandDen-1)/RandDen}.
RandDen == 2
\* Space, P and clicks reach a session that is not over after every
\* InputEvery-th tick; R arrives at any moment.
InputEvery == 30
\* The pipe heights are also computed for every draw num / FineDen.
FineDen == 100
\* The bird is followed down to this y (tenths of a pixel).
MaxBirdY == 5600
\* In the specification with a fair timer the player gives no input to a
\* session that has run this many ticks.
QuietAfter == 100
\* The scores table is followed up to this many rows.
MaxRows == 1
\* Usernames carry up to this many white-space characters on either side.
MaxPad == 1
\* The scores posted go up to this value.
MaxScoreGiven == 0
\* The leaderboard is followed up to this many rows posted into an empty table.
MaxBoardRows == 2
\* The users who post to the leaderboard, and the scores they post.
MaxPlayers == 2
MaxBoardScore == 1
\* The users of the table the leaderboard may start with.
CrowdSize == 11
\* The calls of getScores that are followed, the one at mount included.
MaxFetches == 2
\* A session that runs beside a request in flight or a second live interval is
\* followed this many ticks.
MaxSideFrame == 300

VARIABLES
  gameStarted, gameOver, score, paused,  \* this.state
  frameCount, pipes, bird, loop,         \* the instance fields
  timers,                                \* handles of the live intervals
  pending,                               \* scores of the POSTs in flight
  pausedAtFrame,                         \* history: frameCount when paused became true
  server,                                \* the backend: scores table, last request and answer
  app                                    \* the App component: this.state and its fetches in flight

vars == <<gameStarted, gameOver, score, paused, frameCount, pipes, bird,
          loop, timers, pending, pausedAtFrame, server, app>>

\* The Game instance as one value: the operators below are its methods.
This ==
  [gameStarted |-> gameStarted, gameOver |-> gameOver, score |-> score,
   paused |-> paused, frameCount |-> frameCount, pipes |-> pipes,
   bird |-> bird, loop |-> loop, timers |-> timers, pending |-> pending]

Commit(g) ==
  /\ gameStarted' = g.gameStarted
  /\ gameOver' = g.gameOver
  /\ score' = g.score
  /\ paused' = g.paused
  /\ frameCount' = g.frameCount
  /\ pipes' = g.pipes
  /\ bird' = g.bird
  /\ loop' = g.loop
  /\ timers' = g.timers
  /\ pending' = g.pending
  /\ pausedAtFrame' = IF ~paused /\ g.paused THEN frameCount
                      ELSE IF paused /\ ~g.paused THEN 0
                      ELSE pausedAtFrame
  /\ UNCHANGED <<server, app>>

\* ---------------------------------------------------------------- Bird
NewBird == [x |-> BirdX, y |-> HEIGHT \div 2, velocity |-> 0]

\* Mutant of BirdUpdate: the position moves by the velocity of the tick before.
BirdUpdatePositionFirst(b) ==
  [b EXCEPT !.y = b.y + b.velocity, !.velocity = b.velocity + BirdGravity]

BirdUpdate(b) ==
  LET v == b.velocity + BirdGravity
  IN [b EXCEPT !.velocity = v, !.y = b.y + v]

\* Mutant of BirdJump: the impulse is added to the velocity.
BirdJumpAdditive(b) == [b EXCEPT !.velocity = @ + JumpVelocity]

BirdJump(b) == [b EXCEPT !.velocity = JumpVelocity]

BirdGetBounds(b) ==
  [left |-> b.x - BirdRadius, right |-> b.x + BirdRadius,
   top |-> b.y - BirdRadius, bottom |-> b.y + BirdRadius]

\* ---------------------------------------------------------------- Pipe
NewPipe(height, isBottom) ==
  [isDead |-> FALSE, x |-> WIDTH, width |-> PIPE_WIDTH, isBottom |-> isBottom,
   scored |-> FALSE, y |-> IF isBottom THEN HEIGHT - height ELSE 0,
   height |-> height]

\* Mutant of PipeUpdate: a pipe is dead once its leading edge is off screen.
PipeUpdateDeadAtLeadingEdge(p) ==
  LET x == p.x - PipeSpeed
  IN [p EXCEPT !.x = x, !.isDead = IF x < 0 THEN TRUE ELSE @]

PipeUpdate(p) ==
  LET x == p.x - PipeSpeed
  IN [p EXCEPT !.x = x, !.isDead = IF x + PIPE_WIDTH < 0 THEN TRUE ELSE @]

PipeGetBounds(p) ==
  [left |-> p.x, right |-> p.x + p.width, top |-> p.y, bottom |-> p.y + p.height]

\* ---------------------------------------------------------------- timers
\* setInterval returns a handle no live interval has.  The code never looks at
\* a handle's value and stores every new handle in this.loop at once, so the
\* smallest handle that is not live stands for it.
FreshHandle(g) ==
  CHOOSE h \in 1..(Cardinality(g.timers) + 1) :
    /\ h \notin g.timers
    /\ \A k \in 1..(h - 1) : k \in g.timers

\* this.loop = setInterval(this.gameLoop, 1000 / FPS)
SetLoopInterval(g) ==
  LET h == FreshHandle(g)
  IN [g EXCEPT !.loop = h, !.timers = @ \cup {h}]

\* clearInterval(this.loop)
ClearLoopInterval(g) == [g EXCEPT !.timers = @ \ {g.loop}]

\* ---------------------------------------------------------------- Game
initGame(g) ==
  [g EXCEPT !.bird = NewBird, !.pipes = <<>>, !.frameCount = 0,
            !.score = 0, !.gameOver = FALSE, !.gameStarted = FALSE]

startGame(g) ==
  IF ~g.gameStarted /\ ~g.gameOver
  THEN SetLoopInterval([g EXCEPT !.gameStarted = TRUE])
  ELSE g

\* Mutant of togglePause: the guard forgets gameOver.
togglePauseWhenOver(g) ==
  IF g.gameStarted
  THEN LET t == IF g.paused THEN SetLoopInterval(g) ELSE ClearLoopInterval(g)
       IN [t EXCEPT !.paused = ~g.paused]
  ELSE g

togglePause(g) ==
  IF g.gameStarted /\ ~g.gameOver
  THEN LET t == IF g.paused THEN SetLoopInterval(g) ELSE ClearLoopInterval(g)
       IN [t EXCEPT !.paused = ~g.paused]
  ELSE g

restart(g) ==
  initGame(IF g.loop # 0 THEN ClearLoopInterval(g) ELSE g)

onKeyDown(g, code) ==
  CASE code = "Space" ->
         LET s == IF ~g.gameStarted THEN startGame(g) ELSE g
         IN IF s.gameStarted /\ ~s.gameOver /\ ~s.paused
            THEN [s EXCEPT !.bird = BirdJump(@)]
            ELSE s
    [] code = "KeyP" -> togglePause(g)
    [] code = "KeyR" -> restart(g)
    [] OTHER -> g

onClick(g) ==
  IF ~g.gameStarted
  THEN startGame(g)
  ELSE IF g.gameStarted /\ ~g.gameOver /\ ~g.paused
       THEN [g EXCEPT !.bird = BirdJump(@)]
       ELSE g

\* r is the numerator of the Math.random() draw, r / RandDen.
\* Mutant of PipeHeights: the wide gap is kept up to and including score 3.
PipeHeightsLateRamp(sc, num, den) ==
  LET minHeight == MIN_PIPE_HEIGHT
      isEarlyGame == sc <= EarlyScore
      currentGap == IF isEarlyGame THEN PIPE_GAP + EarlyGapBonus ELSE PIPE_GAP
      maxHeight == HEIGHT - currentGap - minHeight
      topPipeHeight == minHeight + (num * (maxHeight - minHeight)) \div den
      bottomPipeHeight == HEIGHT - topPipeHeight - currentGap
  IN <<topPipeHeight, bottomPipeHeight>>

\* Mutant of PipeHeights: the lower pipe is cut for the base gap in every phase.
PipeHeightsBaseGap(sc, num, den) ==
  LET minHeight == MIN_PIPE_HEIGHT
      isEarlyGame == sc < EarlyScore
      currentGap == IF isEarlyGame THEN PIPE_GAP + EarlyGapBonus ELSE PIPE_GAP
      maxHeight == HEIGHT - currentGap - minHeight
      topPipeHeight == minHeight + (num * (maxHeight - minHeight)) \div den
      bottomPipeHeight == HEIGHT - topPipeHeight - PIPE_GAP
  IN <<topPipeHeight, bottomPipeHeight>>

\* Mutant of PipeHeights: the upper pipe may take all the room below the gap.
PipeHeightsNoFloor(sc, num, den) ==
  LET minHeight == MIN_PIPE_HEIGHT
      isEarlyGame == sc < EarlyScore
      currentGap == IF isEarlyGame THEN PIPE_GAP + EarlyGapBonus ELSE PIPE_GAP
      maxHeight == HEIGHT - currentGap
      topPipeHeight == minHeight + (num * (maxHeight - minHeight)) \div den
      bottomPipeHeight == HEIGHT - topPipeHeight - currentGap
  IN <<topPipeHeight, bottomPipeHeight>>

\* The two heights generatePipes computes at score sc when Math.random()
\* returns num / den.
PipeHeights(sc, num, den) ==
  LET minHeight == MIN_PIPE_HEIGHT
      isEarlyGame == sc < EarlyScore
      currentGap == IF isEarlyGame THEN PIPE_GAP + EarlyGapBonus ELSE PIPE_GAP
      maxHeight == HEIGHT - currentGap - minHeight
      topPipeHeight == minHeight + (num * (maxHeight - minHeight)) \div den
      bottomPipeHeight == HEIGHT - topPipeHeight - currentGap
  IN <<topPipeHeight, bottomPipeHeight>>

\* Mutant of generatePipes: the lower pipe comes first in the pair.
generatePipesLowerFirst(g, r) ==
  LET h == PipeHeights(g.score, r, RandDen)
  IN <<NewPipe(h[2], TRUE), NewPipe(h[1], FALSE)>>

generatePipes(g, r) ==
  LET h == PipeHeights(g.score, r, RandDen)
  IN <<NewPipe(h[1], FALSE), NewPipe(h[2], TRUE)>>

\* Mutant of checkCollisions: a bird that only touches a bound is still inside.
checkCollisionsStrictBounds(g) ==
  LET birdBounds == BirdGetBounds(g.bird)
      margin == PipeMargin
  IN IF birdBounds.top < -BoundsMargin \/ birdBounds.bottom > HEIGHT + BoundsMargin
     THEN TRUE
     ELSE \E i \in 1..Len(g.pipes) :
            LET pipeBounds == PipeGetBounds(g.pipes[i])
            IN /\ birdBounds.right - margin > pipeBounds.left + margin
               /\ birdBounds.left + margin < pipeBounds.right - margin
               /\ birdBounds.bottom - margin > pipeBounds.top + margin
               /\ birdBounds.top + margin < pipeBounds.bottom - margin

\* Mutant of checkCollisions: a pipe that touches from the left counts as a hit.
checkCollisionsLeftTouching(g) ==
  LET birdBounds == BirdGetBounds(g.bird)
      margin == PipeMargin
  IN IF birdBounds.top <= -BoundsMargin \/ birdBounds.bottom >= HEIGHT + BoundsMargin
     THEN TRUE
     ELSE \E i \in 1..Len(g.pipes) :
            LET pipeBounds == PipeGetBounds(g.pipes[i])
            IN /\ birdBounds.right - margin > pipeBounds.left + margin
               /\ birdBounds.left + margin <= pipeBounds.right - margin
               /\ birdBounds.bottom - margin > pipeBounds.top + margin
               /\ birdBounds.top + margin < pipeBounds.bottom - margin

\* Mutant of checkCollisions: the world ends at 0 and 500, with no allowance.
checkCollisionsAtWorldEdge(g) ==
  LET birdBounds == BirdGetBounds(g.bird)
      margin == PipeMargin
  IN IF birdBounds.top <= 0 \/ birdBounds.bottom >= HEIGHT
     THEN TRUE
     ELSE \E i \in 1..Len(g.pipes) :
            LET pipeBounds == PipeGetBounds(g.pipes[i])
            IN /\ birdBounds.right - margin > pipeBounds.left + margin
               /\ birdBounds.left + margin < pipeBounds.right - margin
               /\ birdBounds.bottom - margin > pipeBounds.top + margin
               /\ birdBounds.top + margin < pipeBounds.bottom - margin

\* Mutant of checkCollisions: shrunk boxes that only touch count as a hit.
checkCollisionsTouching(g) ==
  LET birdBounds == BirdGetBounds(g.bird)
      margin == PipeMargin
  IN IF birdBounds.top <= -BoundsMargin \/ birdBounds.bottom >= HEIGHT + BoundsMargin
     THEN TRUE
     ELSE \E i \in 1..Len(g.pipes) :
            LET pipeBounds == PipeGetBounds(g.pipes[i])
            IN /\ birdBounds.right - margin >= pipeBounds.left + margin
               /\ birdBounds.left + margin <= pipeBounds.right - margin
               /\ birdBounds.bottom - margin >= pipeBounds.top + margin
               /\ birdBounds.top + margin <= pipeBounds.bottom - margin

checkCollisions(g) ==
  LET birdBounds == BirdGetBounds(g.bird)
      margin == PipeMargin
  IN IF birdBounds.top <= -BoundsMargin \/ birdBounds.bottom >= HEIGHT + BoundsMargin
     THEN TRUE
     ELSE \E i \in 1..Len(g.pipes) :
            LET pipeBounds == PipeGetBounds(g.pipes[i])
            IN /\ birdBounds.right - margin > pipeBounds.left + margin
               /\ birdBounds.left + margin < pipeBounds.right - margin
               /\ birdBounds.bottom - margin > pipeBounds.top + margin
               /\ birdBounds.top + margin < pipeBounds.bottom - margin

\* The request is built from this.state.score before the first await.
submitScore(g) == [g EXCEPT !.pending = Append(@, g.score)]

\* Mutant of Scores: the lower pipe of a pair scores, the upper one never.
ScoresLowerPipe(p, b) == ~p.scored /\ p.x + PIPE_WIDTH < b.x /\ p.isBottom

\* Mutant of Scores: the lower pipe of a pair scores too.
ScoresEitherPipe(p, b) == ~p.scored /\ p.x + PIPE_WIDTH < b.x

\* The test of the scoring branch, on a pipe that has just moved.
Scores(p, b) == ~p.scored /\ p.x + PIPE_WIDTH < b.x /\ ~p.isBottom

\* Mutant of IsAlive: the filter keeps every pipe.
IsAliveAlways(p) == TRUE

IsAlive(p) == ~p.isDead

\* Mutant of update: the spawn test reads frameCount before the increment.
updateSpawnTestFirst(g, r) ==
  LET fc == g.frameCount + 1
      spawned == IF g.frameCount % SpawnEvery = 0
                 THEN g.pipes \o generatePipes(g, r) ELSE g.pipes
      moved == [i \in 1..Len(spawned) |-> PipeUpdate(spawned[i])]
      marked == [i \in 1..Len(moved) |->
                   IF Scores(moved[i], g.bird)
                   THEN [moved[i] EXCEPT !.scored = TRUE] ELSE moved[i]]
      gained == Cardinality({i \in 1..Len(moved) : Scores(moved[i], g.bird)})
      g1 == [g EXCEPT !.frameCount = fc, !.pipes = SelectSeq(marked, IsAlive),
                      !.score = g.score + gained, !.bird = BirdUpdate(@)]
  IN IF checkCollisions(g1)
     THEN ClearLoopInterval(submitScore([g1 EXCEPT !.gameOver = TRUE]))
     ELSE g1

update(g, r) ==
  LET fc == g.frameCount + 1
      spawned == IF fc % SpawnEvery = 0 THEN g.pipes \o generatePipes(g, r) ELSE g.pipes
      moved == [i \in 1..Len(spawned) |-> PipeUpdate(spawned[i])]
      marked == [i \in 1..Len(moved) |->
                   IF Scores(moved[i], g.bird)
                   THEN [moved[i] EXCEPT !.scored = TRUE] ELSE moved[i]]
      gained == Cardinality({i \in 1..Len(moved) : Scores(moved[i], g.bird)})
      g1 == [g EXCEPT !.frameCount = fc, !.pipes = SelectSeq(marked, IsAlive),
                      !.score = g.score + gained, !.bird = BirdUpdate(@)]
  IN IF checkCollisions(g1)
     THEN ClearLoopInterval(submitScore([g1 EXCEPT !.gameOver = TRUE]))
     ELSE g1

gameLoop(g, r) == IF ~g.paused THEN update(g, r) ELSE g

\* ---------------------------------------------------------------- Init
\* ------------------------------------------------------------------- App
\* error: null
NoError == [t |-> "null"]
FailedToLoad ==
  [t |-> "string", text |-> "Failed to load leaderboard. Please try again later."]

\* The state of App, with the calls of getScores in flight: each has the
\* number of its start and, once the backend has answered, the answer on
\* its way back.  started counts the calls; settled is the number and the
\* answer of the latest-started call that has completed.
NewApp ==
  [scores |-> <<>>, loading |-> TRUE, error |-> NoError,
   fetches |-> <<>>, started |-> 0, settled |-> <<>>]

\* getScores up to its await: the state is set and the request leaves.
getScores(a) ==
  [a EXCEPT !.loading = TRUE, !.error = NoError,
            !.started = a.started + 1,
            !.fetches = Append(a.fetches, [no |-> a.started + 1, answer |-> <<>>])]

\* getScores after its await, for the i-th call in flight: the rows of a 200
\* are shown; any other answer rejects and the catch sets the error.
getScoresDone(a, i) ==
  LET f == a.fetches[i]
      rest == [j \in 1..(Len(a.fetches) - 1) |->
                 IF j < i THEN a.fetches[j] ELSE a.fetches[j + 1]]
      a1 == [a EXCEPT !.fetches = rest,
                      !.settled = IF @ # <<>> /\ @.no > f.no THEN @ ELSE f]
  IN IF f.answer.status = 200
     THEN [a1 EXCEPT !.scores = f.answer.body, !.loading = FALSE]
     ELSE [a1 EXCEPT !.error = FailedToLoad, !.loading = FALSE]

Init ==
  /\ gameStarted = FALSE
  /\ gameOver = FALSE
  /\ score = 0
  /\ paused = FALSE
  /\ frameCount = 0
  /\ pipes = <<>>
  /\ bird = NewBird
  /\ loop = 0
  /\ timers = {}
  /\ pending = <<>>
  /\ pausedAtFrame = 0
  /\ server = [table |-> <<>>, request |-> <<>>, response |-> <<>>]
  /\ app = getScores(NewApp)

\* ---------------------------------------------------------------- actions
Draws == 0..(RandDen - 1)

\* The draws a firing can consume: one when the tick spawns, else none.
DrawsAt(g) ==
  IF ~g.paused /\ (g.frameCount + 1) % SpawnEvery = 0 THEN Draws ELSE {0}

InBounds(g) ==
  /\ g.frameCount <= MaxFrame
  /\ g.bird.y <= MaxBirdY
  /\ Cardinality(g.timers) <= MaxTimers
  /\ Len(g.pending) <= MaxPending

\* The moments at which Space, P and clicks arrive.
InputSlot == gameOver \/ frameCount % InputEvery = 0

\* The game has company: a request in flight, or more than one live interval.
SideLoad == pending # <<>> \/ Cardinality(timers) > 1

\* A live interval fires: gameLoop runs.
TimerFire ==
  /\ SideLoad => frameCount < MaxSideFrame
  /\ \E t \in timers : \E r \in DrawsAt(This) :
       LET g == gameLoop(This, r) IN InBounds(g) /\ Commit(g)

\* Space also arrives on the tick before an upper pipe passes the bird.
PassSlot ==
  \E i \in 1..Len(pipes) :
    /\ ~pipes[i].isBottom /\ ~pipes[i].scored
    /\ pipes[i].x + PIPE_WIDTH - PipeSpeed < bird.x

KeySpace ==
  /\ InputSlot \/ PassSlot
  /\ LET g == onKeyDown(This, "Space") IN InBounds(g) /\ Commit(g)

KeyP ==
  /\ InputSlot
  /\ LET g == onKeyDown(This, "KeyP") IN InBounds(g) /\ Commit(g)

KeyR == LET g == onKeyDown(This, "KeyR") IN InBounds(g) /\ Commit(g)

\* A click outside the two buttons: only the document listener sees it.
ClickDocument ==
  /\ InputSlot
  /\ LET g == onClick(This) IN InBounds(g) /\ Commit(g)

\* A click on "Restart (R)": React runs restart, then the event reaches onClick.
ClickRestart ==
  /\ InputSlot
  /\ LET g == onClick(restart(This)) IN InBounds(g) /\ Commit(g)

\* A click on "Pause (P)": React runs togglePause, then the event reaches onClick.
ClickPause ==
  /\ InputSlot
  /\ LET g == onClick(togglePause(This)) IN InBounds(g) /\ Commit(g)

\* A score request completes (either way): nothing of the game is touched.
\* The onScoreSubmitted prop it calls on success is App's, the step
\* OnScoreSubmitted of the App below.
\* Mutant of PostDone: the completion puts the game back to its initial values.
PostDoneReinitialises ==
  /\ pending # <<>>
  /\ Commit([initGame(This) EXCEPT !.pending = Tail(pending)])

PostDone ==
  /\ pending # <<>>
  /\ \E i \in 1..Len(pending) :
       pending' = [j \in 1..(Len(pending) - 1) |->
                     IF j < i THEN pending[j] ELSE pending[j + 1]]
  /\ UNCHANGED <<gameStarted, gameOver, score, paused, frameCount, pipes, bird,
                 loop, timers, pausedAtFrame, server, app>>

Next ==
  \/ TimerFire
  \/ KeySpace
  \/ KeyP
  \/ KeyR
  \/ ClickDocument
  \/ ClickRestart
  \/ ClickPause
  \/ PostDone

Spec == Init /\ [][Next]_vars

\* ---------------------------------------------------------------- backend
\* JavaScript values of a request body.  A string is kept as the number of
\* its leading white-space characters, the length of the part between them
\* and the trailing ones (0: the string is all white space), and the number of
\* trailing white-space characters.
JsUndefined == [t |-> "undefined"]
JsNull == [t |-> "null"]
JsNumber(n) == [t |-> "number", n |-> n]
JsString(lead, core, trail) ==
  [t |-> "string", lead |-> lead, core |-> core, trail |-> trail]

TypeOf(v) == IF v.t = "null" THEN "object" ELSE v.t

StrLength(v) == v.lead + v.core + v.trail

StrTrim(v) == IF v.core = 0 THEN JsString(0, 0, 0) ELSE JsString(0, v.core, 0)

\* s.substring(0, n) of a string without leading white space.
StrSubstring0(v, n) ==
  IF v.core >= n THEN JsString(0, n, 0)
  ELSE JsString(0, v.core, IF v.core + v.trail > n THEN n - v.core ELSE v.trail)

\* !v
Falsy(v) ==
  \/ v.t \in {"undefined", "null"}
  \/ v.t = "number" /\ v.n = 0
  \/ v.t = "string" /\ StrLength(v) = 0

Answer(status, body) == [status |-> status, body |-> body]

\* Mutant of PostScores: the length test is made on the trimmed username.
PostScoresTrimsFirst(sv, body, err) ==
  LET username == body.username
      scoreGiven == body.score
      sv1 == [sv EXCEPT !.request = body]
  IN IF Falsy(username) \/ TypeOf(username) # "string"
          \/ StrLength(StrTrim(username)) = 0
     THEN [sv1 EXCEPT !.response = Answer(400, "Username is required")]
     ELSE IF TypeOf(scoreGiven) # "number" \/ scoreGiven.n < 0
     THEN [sv1 EXCEPT !.response = Answer(400, "Valid score is required")]
     ELSE IF StrLength(StrTrim(username)) > NameLimit
     THEN [sv1 EXCEPT !.response = Answer(400, "Username too long")]
     ELSE LET cleanUsername == StrSubstring0(StrTrim(username), NameLimit)
          IN IF err
             THEN [sv1 EXCEPT !.response = Answer(500, "Failed to save score")]
             ELSE [sv1 EXCEPT
                     !.table = Append(@, [id |-> Len(@) + 1,
                                          username |-> cleanUsername,
                                          score |-> scoreGiven.n]),
                     !.response = Answer(201, [id |-> Len(sv.table) + 1,
                                               username |-> cleanUsername,
                                               score |-> scoreGiven.n])]

\* app.post('/api/scores'): sv is the backend, body the parsed request body,
\* err whether the database reports an error to the callback of db.run.
PostScores(sv, body, err) ==
  LET username == body.username
      scoreGiven == body.score
      sv1 == [sv EXCEPT !.request = body]
  IN IF Falsy(username) \/ TypeOf(username) # "string"
          \/ StrLength(StrTrim(username)) = 0
     THEN [sv1 EXCEPT !.response = Answer(400, "Username is required")]
     ELSE IF TypeOf(scoreGiven) # "number" \/ scoreGiven.n < 0
     THEN [sv1 EXCEPT !.response = Answer(400, "Valid score is required")]
     ELSE IF StrLength(username) > NameLimit
     THEN [sv1 EXCEPT !.response = Answer(400, "Username too long")]
     ELSE LET cleanUsername == StrSubstring0(StrTrim(username), NameLimit)
          IN IF err
             THEN [sv1 EXCEPT !.response = Answer(500, "Failed to save score")]
             ELSE [sv1 EXCEPT
                     !.table = Append(@, [id |-> Len(@) + 1,
                                          username |-> cleanUsername,
                                          score |-> scoreGiven.n]),
                     !.response = Answer(201, [id |-> Len(sv.table) + 1,
                                               username |-> cleanUsername,
                                               score |-> scoreGiven.n])]

\* The usernames and scores a client may send.
Usernames ==
  {JsUndefined, JsNull, JsNumber(0), JsNumber(7)}
    \cup {JsString(lead, core, trail) :
            lead \in 0..MaxPad, trail \in 0..MaxPad,
            core \in {0, 1, NameLimit - 1, NameLimit}}

ScoresGiven ==
  {JsUndefined, JsString(0, 1, 0)}
    \cup {JsNumber(n) : n \in -1..MaxScoreGiven}

Bodies == [username : Usernames, score : ScoresGiven]

\* A client posts a score: the handler runs to its answer.
HandlePostScores ==
  /\ \E body \in Bodies : \E err \in BOOLEAN :
       LET sv == PostScores(server, body, err)
       IN Len(sv.table) <= MaxRows /\ server' = sv
  /\ UNCHANGED <<gameStarted, gameOver, score, paused, frameCount, pipes, bird,
                 loop, timers, pending, pausedAtFrame, app>>

ServerNext == HandlePostScores

\* The backend alone, with clients that post any body.
ServerSpec == Init /\ [][ServerNext]_vars

\* ------------------------------------------------------------ leaderboard
\* The :limit parameter of the route: absent, a text parseInt makes NaN of,
\* or digits (with a sign) that parseInt reads as n.
LimitAbsent == [t |-> "absent"]
LimitText == [t |-> "text"]
LimitDigits(n) == [t |-> "digits", n |-> n]

\* parseInt(req.params.limit) || 10
ParseLimit(p) ==
  IF p.t \in {"absent", "text"} THEN DefaultLimit
  ELSE IF p.n = 0 THEN DefaultLimit
  ELSE p.n

UsernamesOf(table) == {table[i].username : i \in 1..Len(table)}

\* Mutant of BestOf: the score of the user's first row.
FirstOf(table, u) ==
  LET i == CHOOSE i \in 1..Len(table) :
             /\ table[i].username = u
             /\ \A j \in 1..(i - 1) : table[j].username # u
  IN table[i].score

\* MAX(score) of the rows of user u.
BestOf(table, u) ==
  LET i == CHOOSE i \in 1..Len(table) :
             /\ table[i].username = u
             /\ \A j \in 1..Len(table) :
                  table[j].username = u => table[j].score <= table[i].score
  IN table[i].score

\* SELECT username, MAX(score) as score ... GROUP BY username
GroupByUsername(table) ==
  {[username |-> u, score |-> BestOf(table, u)] : u \in UsernamesOf(table)}

\* ORDER BY score DESC LIMIT k: the orders SQLite may give k of the groups gs
\* in; groups of one score come in any order.
RECURSIVE OrderByScoreDesc(_, _)
OrderByScoreDesc(gs, k) ==
  IF k = 0 \/ gs = {} THEN {<<>>}
  ELSE UNION {{<<g>> \o rest : rest \in OrderByScoreDesc(gs \ {g}, k - 1)} :
                g \in {x \in gs : \A y \in gs : y.score <= x.score}}

\* A negative LIMIT is no limit in SQLite.
SelectTop(table, limit) ==
  LET gs == GroupByUsername(table)
  IN OrderByScoreDesc(gs, IF limit < 0 THEN Cardinality(gs) ELSE limit)

\* app.get('/api/scores/top/:limit?'): the backends the handler may leave,
\* p being the parameter and err whether the database reports an error.
GetTop(sv, p, err) ==
  LET limit == ParseLimit(p)
      sv1 == [sv EXCEPT !.request = [route |-> "top", limit |-> p]]
  IN IF err
     THEN {[sv1 EXCEPT !.response = Answer(500, "Internal server error")]}
     ELSE {[sv1 EXCEPT !.response = Answer(200, rows)] :
             rows \in SelectTop(sv.table, limit)}

\* A table of CrowdSize users, one row each, two of them level at the cut
\* of the default limit.
Crowd ==
  [i \in 1..CrowdSize |->
     [id |-> i, username |-> JsString(0, i, 0),
      score |-> IF i <= 2 THEN 1 ELSE i]]

LimitParams ==
  {LimitAbsent, LimitText}
    \cup {LimitDigits(n) : n \in {-1, 0, 1, 2, DefaultLimit, DefaultLimit + 1}}

\* What the players of the leaderboard post: valid bodies of a few users.
PlayerBodies ==
  [username : {JsString(0, core, 0) : core \in 1..MaxPlayers},
   score : {JsNumber(n) : n \in 0..MaxBoardScore}]

TopInit ==
  /\ gameStarted = FALSE /\ gameOver = FALSE /\ score = 0 /\ paused = FALSE
  /\ frameCount = 0 /\ pipes = <<>> /\ bird = NewBird
  /\ loop = 0 /\ timers = {} /\ pending = <<>> /\ pausedAtFrame = 0
  /\ \E table \in {<<>>, Crowd} :
       server = [table |-> table, request |-> <<>>, response |-> <<>>]
  /\ app = getScores(NewApp)

\* A player's score is posted and stored.
HandlePlayerPost ==
  /\ Len(server.table) \notin {MaxBoardRows, CrowdSize + 1}
  /\ \E body \in PlayerBodies : server' = PostScores(server, body, FALSE)
  /\ UNCHANGED <<gameStarted, gameOver, score, paused, frameCount, pipes, bird,
                 loop, timers, pending, pausedAtFrame, app>>

\* A client asks for the top scores.
HandleGetTop ==
  /\ \E p \in LimitParams : \E err \in BOOLEAN :
       \E sv \in GetTop(server, p, err) : server' = sv
  /\ UNCHANGED <<gameStarted, gameOver, score, paused, frameCount, pipes, bird,
                 loop, timers, pending, pausedAtFrame, app>>

TopNext == HandlePlayerPost \/ HandleGetTop

\* The backend as the leaderboard sees it: stored scores and top-score reads.
TopSpec == TopInit /\ [][TopNext]_vars

\* ------------------------------------------------------- App and backend
\* A score was stored and the Game calls the onScoreSubmitted prop.
OnScoreSubmitted ==
  /\ server.table # <<>>
  /\ app.started < MaxFetches
  /\ app' = getScores(app)
  /\ UNCHANGED <<gameStarted, gameOver, score, paused, frameCount, pipes, bird,
                 loop, timers, pending, pausedAtFrame, server>>

\* The backend answers the request of a call in flight: GET /api/scores/top/10.
FetchServed ==
  /\ \E i \in 1..Len(app.fetches) : \E err \in BOOLEAN :
       \E sv \in GetTop(server, LimitDigits(DefaultLimit), err) :
         /\ app.fetches[i].answer = <<>>
         /\ server' = sv
         /\ app' = [app EXCEPT !.fetches[i].answer = sv.response]
  /\ UNCHANGED <<gameStarted, gameOver, score, paused, frameCount, pipes, bird,
                 loop, timers, pending, pausedAtFrame>>

\* The answer of a call in flight arrives, in any order, and getScores resumes.
FetchDone ==
  /\ \E i \in 1..Len(app.fetches) :
       /\ app.fetches[i].answer # <<>>
       /\ app' = getScoresDone(app, i)
  /\ UNCHANGED <<gameStarted, gameOver, score, paused, frameCount, pipes, bird,
                 loop, timers, pending, pausedAtFrame, server>>

AppNext ==
  \/ HandlePlayerPost
  \/ OnScoreSubmitted
  \/ FetchServed
  \/ FetchDone

\* The App with its leaderboard and the backend; of the Game only the calls
\* of onScoreSubmitted.
AppSpec == Init /\ [][AppNext]_vars

\* The player still gives input: early in a session, or once it is over.
Attentive == frameCount < QuietAfter \/ gameOver

\* The same program with a player who leaves a session alone after its first
\* QuietAfter ticks, an interval that keeps firing while it is live and
\* requests that come to an end (answered, refused or timed out).
QuietNext ==
  \/ TimerFire
  \/ Attentive /\ KeySpace
  \/ Attentive /\ KeyP
  \/ Attentive /\ KeyR
  \/ Attentive /\ ClickDocument
  \/ Attentive /\ ClickRestart
  \/ Attentive /\ ClickPause
  \/ PostDone

FairSpec ==
  Init /\ [][QuietNext]_vars /\ WF_vars(TimerFire) /\ WF_vars(PostDone)

\* ---------------------------------------------------------------- states
\* The four states of the game, as drawUI tells them apart from the flags.
Idle == ~gameStarted /\ ~gameOver
Running == gameStarted /\ ~gameOver /\ ~paused
Paused == gameStarted /\ ~gameOver /\ paused
Over == gameOver

\* The per-tick state of a session.
session == <<frameCount, bird, pipes, score>>

\* ---------------------------------------------------------------- claims

\* C1: submitScore is invoked exactly once per transition into Over: a step
\* puts a request in flight only if it is the tick that sets gameOver, the
\* request carries the score held then, and every step that sets gameOver
\* puts one in flight.
C1_SubmitOncePerOver ==
  [][LET submitted == Len(pending') > Len(pending)
     IN /\ submitted => /\ ~gameOver /\ gameOver'
                        /\ pending' = Append(pending, score')
        /\ (~gameOver /\ gameOver') => submitted]_vars

\* C2: once gameOver is true, frameCount, the bird, the pipes and the score
\* stay as they are in every step that is not a restart (a restart clears
\* gameOver).
C2_FrozenWhenOver ==
  [][(gameOver /\ gameOver') => UNCHANGED session]_vars

\* C3: a restart trigger in Over (the R key, or a click on the Restart button)
\* leaves the game Idle with score 0 and no pipes.
C3_RestartGivesIdle ==
  [][(gameStarted /\ gameOver /\ (KeyR \/ ClickRestart))
       => (Idle' /\ score' = 0 /\ pipes' = <<>>)]_vars

\* C4: while paused no timer firing changes the session, and the step that
\* resumes finds frameCount at the value it had when paused became true.
C4_PauseKeepsTickCounter ==
  [][/\ (paused /\ TimerFire) => UNCHANGED session
     /\ (paused /\ ~paused') => frameCount' = pausedAtFrame]_vars

\* C5: a pause toggle and a resume toggle are invisible to the simulation:
\* the step that flips paused leaves frameCount, the bird, the pipes, the
\* score and gameOver as they are, so the ticks after the resume continue the
\* run that never paused.
C5_PauseInvisible ==
  [][(paused' # paused) => UNCHANGED <<session, gameOver>>]_vars

\* C6: Space or a click arriving in Idle, Paused or Over leaves the bird as it
\* is, and the velocity becomes the jump impulse only in a step taken from
\* Running.
C6_JumpOnlyWhenRunning ==
  [][/\ (~Running /\ (KeySpace \/ ClickDocument)) => bird' = bird
     /\ (bird'.velocity = JumpVelocity /\ bird.velocity # JumpVelocity)
          => Running]_vars

\* C7: togglePause in Idle or Over, and startGame in Running, Paused or Over,
\* return the game as it is: no flag, no session data, no timer changes.
C7_IllegalTransitionsAreNoOps ==
  /\ (Idle \/ Over) => togglePause(This) = This
  /\ (Running \/ Paused \/ Over) => startGame(This) = This

\* C7 witness: the game is Over, with pipes on screen and the loop handle set.
C7_Witness == gameStarted /\ gameOver /\ Len(pipes) > 0 /\ loop # 0

\* C8: the step that processes a start trigger (Space or a click) in Idle
\* ends Running with frameCount 0, no pipes, score 0 and the bird at its
\* spawn position with velocity 0.
C8_StartGivesFreshRunning ==
  [][(Idle /\ (KeySpace \/ ClickDocument))
       => (Running' /\ frameCount' = 0 /\ pipes' = <<>> /\ score' = 0
           /\ bird' = NewBird)]_vars

\* A pipe carries the scored flag exactly when it is an upper pipe whose
\* trailing edge is left of the bird.
ScoredIffPassed ==
  \A i \in 1..Len(pipes) :
    pipes[i].scored <=>
      (~pipes[i].isBottom /\ pipes[i].x + pipes[i].width < bird.x)

\* The score counts the pairs spawned in the session but those whose upper
\* pipe is on screen and not yet scored.
ScoreCountsPairs ==
  score = (frameCount \div SpawnEvery)
          - Cardinality({i \in 1..Len(pipes) :
                           ~pipes[i].isBottom /\ ~pipes[i].scored})

\* C9: the score changes by +1 only (a restart zeroes it), once per pair: after
\* every step a pipe is scored iff it is an upper pipe whose trailing edge is
\* strictly left of the bird, lower pipes are never scored, a scored flag stays,
\* and the score is the number of pairs that have passed.
C9_ScoreOncePerPair ==
  [][/\ score' = score \/ score' = score + 1 \/ (score' = 0 /\ frameCount' = 0)
     /\ ScoredIffPassed'
     /\ ScoreCountsPairs']_vars

\* C9 witness: a scored upper pipe is on screen with its unscored lower pipe,
\* behind them a pair that has not passed yet.
C9_Witness ==
  /\ score >= 1
  /\ Len(pipes) >= 4
  /\ pipes[1].scored /\ ~pipes[2].scored /\ pipes[2].x + pipes[2].width < bird.x
  /\ ~pipes[3].scored

\* C10: every executed tick sets velocity' = velocity + 0.4 and then
\* y' = y + velocity', with no clamp on y.
C10_GravityThenPosition ==
  [][(frameCount' = frameCount + 1)
       => /\ bird'.velocity = bird.velocity + BirdGravity
          /\ bird'.y = bird.y + bird'.velocity
          /\ bird'.x = bird.x]_vars

\* C10 witness: ticks have taken the bird below the floor of the world, where
\* a clamp would have held it.
C10_Witness == frameCount > 0 /\ bird.y - BirdRadius > HEIGHT

\* C11: a jump sets the velocity to -8 whatever it was and leaves y as it is;
\* a tick from velocity 0 gives 0.4, and a tick right after a jump gives -7.6.
C11_JumpOverridesVelocity ==
  [][/\ (Running /\ (KeySpace \/ ClickDocument))
          => bird' = [bird EXCEPT !.velocity = JumpVelocity]
     /\ (frameCount' = frameCount + 1 /\ bird.velocity = 0)
          => bird'.velocity = BirdGravity
     /\ (frameCount' = frameCount + 1 /\ bird.velocity = JumpVelocity)
          => bird'.velocity = JumpVelocity + BirdGravity
     /\ BirdJump(bird').velocity = JumpVelocity
     /\ BirdJump(bird').y = bird'.y]_vars

\* C11 witness: the tick after a jump taken while the bird was falling.
C11_Witness ==
  /\ frameCount = InputEvery + 1
  /\ bird.velocity = JumpVelocity + BirdGravity
  /\ bird.y > HEIGHT \div 2

\* The pairs of live pipes, upper pipe first, in the order of this.pipes.
Pairs == {k \in 1..(Len(pipes) \div 2) : TRUE}
Upper(k) == pipes[2 * k - 1]
Lower(k) == pipes[2 * k]

\* The gap the spec gives a pair spawned at score sc.
GapAt(sc) == IF sc < 3 THEN 250 * 10 ELSE 200 * 10

\* A tick that spawns a pair.
SpawnTick == frameCount' = frameCount + 1 /\ frameCount' % SpawnEvery = 0

\* The upper and the lower pipe u, l leave exactly gap between them.
PairLeaves(u, l, gap) ==
  /\ ~u.isBottom /\ l.isBottom /\ u.x = l.x
  /\ u.height + l.height + gap = 500 * 10
  /\ PipeGetBounds(u).top = 0 /\ PipeGetBounds(u).bottom = u.height
  /\ PipeGetBounds(l).top = 500 * 10 - l.height /\ PipeGetBounds(l).bottom = 500 * 10
  /\ PipeGetBounds(l).top - PipeGetBounds(u).bottom = gap
  /\ PipeGetBounds(u).bottom < PipeGetBounds(l).top

C13_HeightsAtLeastMin ==
  /\ \A i \in 1..Len(pipes) : pipes[i].height >= 30 * 10
  /\ (frameCount + 1) % SpawnEvery = 0 =>
       \A sc \in {score, 0, 3} : \A num \in 0..(FineDen - 1) :
         LET h == PipeHeights(sc, num, FineDen)
         IN h[1] >= 30 * 10 /\ h[2] >= 30 * 10

\* C13 witness: an upper pipe of exactly the minimum height is live beside a
\* pair spawned with the gap of 200.
C13_Witness ==
  /\ \E k \in Pairs : Upper(k).height = 30 * 10
  /\ \E k \in Pairs : Upper(k).height + Lower(k).height = 500 * 10 - GapAt(3)

\* The bird's top is at or above -5, or its bottom at or below 505.
OutOfBounds(b) == b.y - 12 * 10 <= -(5 * 10) \/ b.y + 12 * 10 >= 505 * 10

\* The bird's box, shrunk by 3 on every side, overlaps the shrunk box of pipe p.
Overlaps(b, p) ==
  /\ b.x + 12 * 10 - 3 * 10 > p.x + 3 * 10
  /\ b.x - 12 * 10 + 3 * 10 < p.x + p.width - 3 * 10
  /\ b.y + 12 * 10 - 3 * 10 > p.y + 3 * 10
  /\ b.y - 12 * 10 + 3 * 10 < p.y + p.height - 3 * 10

\* The game as it is, with the bird moved to height y.
BirdAt(y) == [This EXCEPT !.bird.y = y]

\* C14: a tick that ends with the bird's top <= -5 or its bottom >= 505 ends in
\* Over, the two boundary values included; a tick that ends with the bird
\* strictly inside (-5, 505) and on no pipe does not end the game.
C14_BoundsEndTheGame ==
  [][/\ (frameCount' = frameCount + 1 /\ OutOfBounds(bird')) => gameOver'
     /\ (/\ frameCount' = frameCount + 1
         /\ ~gameOver
         /\ ~OutOfBounds(bird')
         /\ \A i \in 1..Len(pipes') : ~Overlaps(bird', pipes'[i]))
          => ~gameOver'
     /\ checkCollisions(BirdAt(-(5 * 10) + 12 * 10))
     /\ checkCollisions(BirdAt(505 * 10 - 12 * 10))
     /\ \A y \in {-(5 * 10) + 12 * 10 + 1, 505 * 10 - 12 * 10 - 1} :
          (\A i \in 1..Len(pipes) : ~Overlaps(BirdAt(y).bird, pipes[i]))
            => ~checkCollisions(BirdAt(y))]_vars

\* C14 witness: the game is over with the bird at the ceiling, no pipe touched.
C14_Witness ==
  /\ gameOver /\ Cardinality(timers) = 0
  /\ bird.y - 12 * 10 <= -(5 * 10)
  /\ \A i \in 1..Len(pipes) : ~Overlaps(bird, pipes[i])

\* C15: the completion of a score submission, at whatever moment, changes no
\* part of the game and starts no new request; the step that makes the request
\* is the step that reaches Over, and a restart is possible while it is in flight.
C15_SubmissionIsFireAndForget ==
  [][/\ Len(pending') < Len(pending) =>
          /\ UNCHANGED <<gameStarted, gameOver, paused, frameCount, bird, pipes,
                         score, loop, timers>>
          /\ Len(pending') = Len(pending) - 1
     /\ Len(pending') > Len(pending) =>
          /\ gameOver'
          /\ pending' = Append(pending, score')
     /\ (gameOver /\ pending # <<>>) =>
          /\ ENABLED (KeyR /\ ~gameOver' /\ pending' = pending)
          /\ ~restart(This).gameOver /\ restart(This).pending = pending]_vars

\* C15 witness: a later session is running while the request of an earlier one
\* is still in flight.
C15_Witness ==
  /\ gameStarted /\ ~gameOver /\ ~paused
  /\ frameCount > 0
  /\ pending # <<>>

\* C16: at most one interval is live at any time, and the handle a start or a
\* resume replaces is no longer live.
C16_OneLiveTimer ==
  [][/\ Cardinality(timers') <= 1
     /\ loop' # loop => loop \notin timers']_vars

\* C17: in Idle no tick executes: frameCount is 0, there is no pipe, the score
\* is 0 and the bird rests at y = 250 with velocity 0, until a start trigger.
C17_IdleIsAtRest ==
  [][/\ Idle' =>
          /\ frameCount' = 0 /\ pipes' = <<>> /\ score' = 0
          /\ bird'.y = 250 * 10 /\ bird'.velocity = 0
     /\ (Idle /\ Idle') => UNCHANGED <<frameCount, pipes, score, bird>>]_vars

\* C18: the flags encode one of Idle, Running, Paused and Over: paused implies
\* gameStarted and not gameOver, and gameOver implies gameStarted.
C18_FlagsEncodeOneState ==
  /\ paused => (gameStarted /\ ~gameOver)
  /\ gameOver => gameStarted

\* C19: a start trigger after a restart from any state, Paused included, gives
\* a Running session with paused = false, in which a timer firing advances
\* frameCount and a jump trigger is accepted.
C19_StartAfterRestartRuns ==
  [][(~gameStarted /\ gameStarted') =>
        /\ ~paused' /\ ~gameOver'
        /\ loop' \in timers'
        /\ gameLoop(This, 0)'.frameCount = frameCount' + 1
        /\ onKeyDown(This, "Space")'.bird.velocity = JumpVelocity]_vars

\* A pair spawned by the last tick is live: it has moved once from the right edge.
FreshPair == \E k \in Pairs : Upper(k).x = 800 * 10 - 15 /\ Lower(k).x = 800 * 10 - 15

\* C20 as stated: a tick spawns a pair iff the number of ticks completed before
\* it is a multiple of 240, the counter being incremented as the last step.
C20_SpawnTestBeforeIncrement ==
  [][frameCount' = frameCount + 1 => (FreshPair' <=> frameCount % 240 = 0)]_vars

\* C20 amended: the counter is incremented as the first step of the tick and
\* the spawn test reads the incremented value: a tick spawns a pair iff the
\* number of ticks completed with it is a multiple of 240; the pair is appended
\* last and advanced in the same tick, and no other tick adds a pipe.
C20_SpawnTestAfterIncrement ==
  [][frameCount' = frameCount + 1 =>
       /\ FreshPair' <=> frameCount' % 240 = 0
       /\ frameCount' % 240 = 0 =>
            /\ Len(pipes') >= 2
            /\ pipes'[Len(pipes') - 1].x = 800 * 10 - 15 /\ ~pipes'[Len(pipes') - 1].isBottom
            /\ pipes'[Len(pipes')].x = 800 * 10 - 15 /\ pipes'[Len(pipes')].isBottom
       /\ frameCount' % 240 # 0 => Len(pipes') <= Len(pipes)]_vars

\* C20 witness: the 480th tick has just spawned the second pair.
C20_Witness ==
  /\ frameCount = 2 * 240
  /\ Len(pipes) = 4
  /\ FreshPair

\* The game as it is, with the bird at mid height and one pipe whose box has
\* its left edge at l and spans t .. t + h vertically.
OnePipeAt(l, t, h) ==
  [This EXCEPT !.bird.y = 250 * 10,
               !.pipes = <<[NewPipe(h, FALSE) EXCEPT !.x = l, !.y = t]>>]

\* Boxes that touch the bird's shrunk box (141..159 by 241..259) after their
\* own shrink by 3: from the right, the left, below and above.
TouchingPipes ==
  {<<1560, 0, 500 * 10>>, <<840, 0, 500 * 10>>,
   <<1500, 2560, 2440>>, <<1500, 0, 2440>>}

\* The same boxes moved one tenth of a pixel into the bird's box.
OverlappingPipes ==
  {<<1559, 0, 500 * 10>>, <<841, 0, 500 * 10>>,
   <<1500, 2559, 2441>>, <<1500, 0, 2441>>}

\* C21: checkCollisions reports a pipe collision iff the bird's box and the box
\* of a live pipe, both shrunk by 3 on every side, strictly overlap on both
\* axes; boxes that touch after the shrink do not collide (tried on the first
\* tick of every session, the test pipes being the same in every state); a
\* tick in which it reports a collision ends in Over.
C21_ShrunkBoxesMustOverlap ==
  [][/\ ~OutOfBounds(bird') =>
          (checkCollisions([bird |-> bird', pipes |-> pipes']) <=> \E i \in 1..Len(pipes') : Overlaps(bird', pipes'[i]))
     /\ frameCount' = 1 =>
          /\ \A c \in TouchingPipes : ~checkCollisions(OnePipeAt(c[1], c[2], c[3]))
          /\ \A c \in OverlappingPipes : checkCollisions(OnePipeAt(c[1], c[2], c[3]))
     /\ (frameCount' = frameCount + 1 /\ checkCollisions([bird |-> bird', pipes |-> pipes'])) => gameOver']_vars

\* C21 witness: the game is over with the bird inside the bounds and on a pipe.
C21_Witness ==
  /\ gameOver /\ gameStarted
  /\ ~OutOfBounds(bird)
  /\ \E i \in 1..Len(pipes) : Overlaps(bird, pipes[i])

\* C22: a pair whose upper pipe is scored has been cleared: neither its upper
\* nor its lower pipe is hit by the bird in the scoring tick or in a later one.
C22_ScoredPairIsCleared ==
  \A k \in Pairs :
    Upper(k).scored => (~Overlaps(bird, Upper(k)) /\ ~Overlaps(bird, Lower(k)))

\* The pipes whose trailing edge becomes negative in the next tick.
Leaving == {i \in 1..Len(pipes) : pipes[i].x - 15 + pipes[i].width < 0}

\* C23: after every tick no live pipe has x + width < 0; a pipe is removed in
\* exactly the tick in which its trailing edge becomes negative, not earlier,
\* and the two pipes of a pair are removed in the same tick.
C23_RemovedWhenOffScreen ==
  [][/\ \A i \in 1..Len(pipes') : pipes'[i].x + pipes'[i].width >= 0 /\ ~pipes'[i].isDead
     /\ frameCount' = frameCount + 1 =>
          LET n == Cardinality(Leaving)
              kept == Len(pipes) - n
          IN /\ Leaving = 1..n
             /\ n \in {0, 2}
             /\ n = 2 => (~pipes[1].isBottom /\ pipes[2].isBottom)
             /\ Len(pipes') = kept + (IF frameCount' % 240 = 0 THEN 2 ELSE 0)
             /\ \A j \in 1..kept :
                  /\ pipes'[j].x = pipes[j + n].x - 15
                  /\ pipes'[j].height = pipes[j + n].height
                  /\ pipes'[j].isBottom = pipes[j + n].isBottom]_vars

\* C23 witness: the first pair has just been removed, on its 574th tick, while
\* the session runs on with the second and the third pair.
C23_Witness ==
  /\ frameCount = 240 + 573
  /\ ~gameOver
  /\ Len(pipes) = 4
  /\ pipes[1].x = 800 * 10 - 15 * (813 - 480 + 1)

\* The tick that spawned pair k of the live list: the newest pair was spawned
\* by the last tick whose count is a multiple of 240, each older one 240
\* ticks before the next.
SpawnedAt(k) == 240 * ((frameCount \div 240) - (Len(pipes) \div 2 - k))

\* C24: the live pipes are adjacent (upper, lower) pairs with a common x, in
\* spawn order (x does not decrease along the list), and every pipe has moved
\* left by 1.5 for each tick executed since it was spawned, its own included.
C24_PairsInSpawnOrder ==
  /\ Len(pipes) % 2 = 0
  /\ \A k \in Pairs :
       /\ ~Upper(k).isBottom /\ Lower(k).isBottom
       /\ Upper(k).x = Lower(k).x
       /\ SpawnedAt(k) > 0
       /\ Upper(k).x = 800 * 10 - 15 * (frameCount - SpawnedAt(k) + 1)
  /\ \A i, j \in 1..Len(pipes) : i < j => pipes[i].x <= pipes[j].x

\* C24 witness: three pairs are live, the oldest near the left edge.
C24_Witness ==
  /\ Len(pipes) = 6
  /\ pipes[1].x < 0
  /\ pipes[1].x < pipes[3].x /\ pipes[3].x < pipes[5].x

\* The gap pair k of the live list leaves between its two pipes.
GapOf(k) == Lower(k).y - (Upper(k).y + Upper(k).height)

\* C25: a pair is spawned with the gap 250 iff the score at its spawn tick is
\* below 3 and with 200 otherwise; the score does not decrease in a session,
\* so no pair follows a pair of gap 200 with a gap other than 200.
C25_GapFollowsScore ==
  [][/\ SpawnTick =>
          LET n == Len(pipes') \div 2
              gap == pipes'[2 * n].y - (pipes'[2 * n - 1].y + pipes'[2 * n - 1].height)
          IN /\ n >= 1
             /\ gap = 250 * 10 <=> score < 3
             /\ gap = 200 * 10 <=> score >= 3
     /\ (frameCount' = frameCount + 1) => score' >= score
     /\ \A j, k \in 1..(Len(pipes') \div 2) :
          LET gj == pipes'[2 * j].y - (pipes'[2 * j - 1].y + pipes'[2 * j - 1].height)
              gk == pipes'[2 * k].y - (pipes'[2 * k - 1].y + pipes'[2 * k - 1].height)
          IN (j < k /\ gj = 200 * 10) => gk = 200 * 10]_vars

\* C25 witness: two pairs of gap 200 are live behind a pair of gap 250.
C25_Witness ==
  /\ Len(pipes) = 6
  /\ GapOf(1) = 250 * 10
  /\ GapOf(2) = 200 * 10
  /\ GapOf(3) = 200 * 10

\* Pipe p mirrored about the bird's x: the box [l, r] becomes [300 - r, 300 - l].
Mirror(p) == [p EXCEPT !.x = 2 * (150 * 10) - (p.x + p.width)]

\* The game as it is, with p as its only pipe.
OnlyPipe(p) == [This EXCEPT !.pipes = <<p>>]

\* Left edges around the position at which the shrunk boxes touch on the
\* bird's right; their mirror images are around the touch on its left.
NearTouch == (1560 - 1)..(1560 + 1)

\* C26: checkCollisions gives the same answer for a pipe and for its mirror
\* image about the bird's x with the same vertical span, also where the shrunk
\* boxes exactly touch.
C26_MirrorSymmetry ==
  \A i \in 1..Len(pipes) :
    /\ checkCollisions(OnlyPipe(pipes[i])) = checkCollisions(OnlyPipe(Mirror(pipes[i])))
    /\ \A l \in NearTouch :
         LET p == [pipes[i] EXCEPT !.x = l]
         IN checkCollisions(OnlyPipe(p)) = checkCollisions(OnlyPipe(Mirror(p)))

\* C26 witness: the bird is inside the bounds at the height of a live pipe:
\* moved to where the shrunk boxes touch, the pipe and its mirror image give
\* no collision, and one tenth of a pixel closer both do.
C26_Witness ==
  /\ ~OutOfBounds(bird)
  /\ \E i \in 1..Len(pipes) :
       /\ ~checkCollisions(OnlyPipe([pipes[i] EXCEPT !.x = 1560]))
       /\ ~checkCollisions(OnlyPipe(Mirror([pipes[i] EXCEPT !.x = 1560])))
       /\ checkCollisions(OnlyPipe([pipes[i] EXCEPT !.x = 1559]))
       /\ checkCollisions(OnlyPipe(Mirror([pipes[i] EXCEPT !.x = 1559])))

\* C27: a pair is scored before it is removed: every upper pipe a tick removes
\* from the list has scored = TRUE, as has every upper pipe left of x = 140.
C27_ScoredBeforeRemoved ==
  [][frameCount' = frameCount + 1 =>
       /\ \A i \in Leaving : ~pipes[i].isBottom => pipes[i].scored
       /\ \A i \in 1..Len(pipes) :
            (~pipes[i].isBottom /\ pipes[i].x + pipes[i].width < 140 * 10)
              => pipes[i].scored]_vars

\* C27 witness: the session runs on after the first pair, scored, was removed.
C27_Witness ==
  /\ frameCount = 240 + 574
  /\ ~gameOver /\ gameStarted
  /\ score = 1
  /\ Len(pipes) = 4

\* The bird of a session started by a click and never made to jump, after
\* frameCount ticks.
NeverJumped ==
  /\ gameStarted
  /\ bird.velocity = 4 * frameCount
  /\ bird.y = 250 * 10 + 2 * frameCount * (frameCount + 1)

\* C28: with a timer that keeps firing, a running session that gets no more
\* input reaches Over; a session started by a click and given no jump is over
\* at the end of its 35th tick, not before, with score 0.
C28_UnattendedSessionEnds ==
  /\ (Running /\ ~Attentive) ~> Over
  /\ [](NeverJumped => (score = 0 /\ (gameOver <=> frameCount >= 35)))

\* C28 witness: the 35th tick of a session that never jumped has ended it.
C28_Witness ==
  /\ NeverJumped
  /\ frameCount = 35
  /\ gameOver /\ score = 0
  /\ timers = {}

\* C29: the live list never holds more than 3 pairs (6 pipes): a pipe is
\* removed by its 574th tick, so it is in the list with at most 573 moves
\* behind it, and a pair is spawned every 240 ticks.
C29_AtMostThreePairs ==
  /\ Len(pipes) <= 6
  /\ \A i \in 1..Len(pipes) : pipes[i].x >= 800 * 10 - 15 * 573
  /\ \A i, j \in 1..Len(pipes) :
       (i < j /\ pipes[i].x # pipes[j].x) => pipes[j].x - pipes[i].x >= 15 * 240

\* C29 witness: three pairs are live, the oldest on the last tick of its life.
C29_Witness ==
  /\ Len(pipes) = 6
  /\ pipes[1].x = 800 * 10 - 15 * 573
  /\ pipes[6].x = 800 * 10 - 15 * (573 - 480)

\* A body POST /api/scores is to accept: the username is a string of at most 50
\* characters that is not blank once trimmed, the score a number >= 0.
ValidBody(b) ==
  /\ b.username.t = "string"
  /\ b.username.core > 0
  /\ b.username.lead + b.username.core + b.username.trail <= 50
  /\ b.score.t = "number"
  /\ b.score.n >= 0

\* The row the handler is to insert for body b: the trimmed username, the score.
RowFor(b, id) ==
  [id |-> id, username |-> JsString(0, b.username.core, 0), score |-> b.score.n]

\* C30 as stated: POST /api/scores inserts one row with the trimmed username
\* and the given score and answers 201 iff the body is valid; in every other
\* case it answers 400 and leaves the table unchanged.
C30_PostAnswers201Or400 ==
  [][server' # server =>
       IF ValidBody(server'.request)
       THEN /\ server'.response.status = 201
            /\ server'.table =
                 Append(server.table, RowFor(server'.request, Len(server.table) + 1))
       ELSE /\ server'.response.status = 400
            /\ server'.table = server.table]_vars

\* C30 amended: a valid body is answered 201 with exactly one row inserted, or
\* 500 with the table unchanged when the database reports an error; every other
\* body is answered 400 with the table unchanged.
C30_PostAnswers201Or400Or500 ==
  [][server' # server =>
       /\ server'.response.status \in {201, 400, 500}
       /\ server'.response.status = 400 <=> ~ValidBody(server'.request)
       /\ server'.response.status = 201 =>
            server'.table =
              Append(server.table, RowFor(server'.request, Len(server.table) + 1))
       /\ server'.response.status # 201 => server'.table = server.table]_vars

\* C30 witness: a username of 50 characters that begins with white space was
\* accepted, and is stored trimmed.
C30_Witness ==
  /\ Len(server.table) = 1
  /\ server.response.status = 201
  /\ server.request.username = JsString(1, 49, 0)
  /\ server.table[1].username = JsString(0, 49, 0)
  /\ server.table[1].score = server.request.score.n

\* The top-score request with parameter p was answered with rows.
TopAnswered(sv) ==
  /\ sv.request # <<>>
  /\ "route" \in DOMAIN sv.request
  /\ sv.response.status = 200

\* The rows a limit allows: the limit itself when it is positive, the default
\* when it is absent, not a number or 0.
RowsAllowed(p) ==
  IF p.t = "digits" /\ p.n > 0 THEN p.n ELSE DefaultLimit

\* The best stored score of user u, by the definition of a maximum.
IsBest(table, u, n) ==
  /\ \E i \in 1..Len(table) : table[i].username = u /\ table[i].score = n
  /\ \A i \in 1..Len(table) : table[i].username = u => table[i].score <= n

TopRowsRight(table, p, rows) ==
  (p.t = "digits" => p.n >= 0)
  => /\ Len(rows) <= RowsAllowed(p)
     /\ \A i, j \in 1..Len(rows) : i # j => rows[i].username # rows[j].username
     /\ \A i \in 1..Len(rows) : IsBest(table, rows[i].username, rows[i].score)
     /\ \A i, j \in 1..Len(rows) : i < j => rows[i].score >= rows[j].score
     /\ \A u \in UsernamesOf(table) :
          (\A i \in 1..Len(rows) : rows[i].username # u)
          => \A i \in 1..Len(rows) : \A k \in 1..Len(table) :
               table[k].username = u => table[k].score <= rows[i].score

\* C31: GET /api/scores/top/:limit answers, for a limit that is not negative,
\* at most limit rows (at most 10 when the limit is absent, not a number or 0),
\* no two of one username, each with the greatest score stored for its user,
\* in non-increasing order of score, and no user left out has a best score
\* above that of a user returned.
C31_TopRowsAreTheBest ==
  [][HandleGetTop /\ TopAnswered(server')
     => TopRowsRight(server.table, server'.request.limit, server'.response.body)]_vars

\* The default limit cuts a table of more users, one of whom has two scores,
\* between two users of one best score.
C31_Witness ==
  /\ TopAnswered(server)
  /\ server.request.limit = LimitAbsent
  /\ Len(server.response.body) = DefaultLimit
  /\ Cardinality(UsernamesOf(server.table)) > DefaultLimit
  /\ Len(server.table) > Cardinality(UsernamesOf(server.table))
  /\ \E u \in UsernamesOf(server.table) :
       /\ \A i \in 1..DefaultLimit : server.response.body[i].username # u
       /\ BestOf(server.table, u) = server.response.body[DefaultLimit].score

\* App shows the outcome of the call f of getScores.
Shows(f) ==
  /\ app.loading = FALSE
  /\ IF f.answer.status = 200
     THEN app.scores = f.answer.body /\ app.error = NoError
     ELSE app.error = FailedToLoad

\* C32: once every call of getScores has completed, the state of App (scores,
\* error, loading false) is the outcome of the call started last, whatever
\* the order in which the calls completed.
C32_LatestFetchShown ==
  app.fetches = <<>> => app.settled.no = app.started /\ Shows(app.settled)
====
